---------------------------- MODULE Spec2Model ----------------------------
(***************************************************************************)
(* Model of fbref_scrapy's configuration reconciliation:                   *)
(*   helpers.py  select_top_priority, get_table_types, get_all_variables,  *)
(*               remove_duplicate_values, find_difference                  *)
(*   config.py   FbrefConfig (__init__, save, update_tables,               *)
(*               update_variables) and the __main__ driver.                *)
(*                                                                         *)
(* Data representation                                                     *)
(*   - a rank mapping (config["tables"], a dict in insertion order) is a   *)
(*     sequence of <<category, rank>> pairs with distinct categories: the  *)
(*     key order decides ties in the stable sort of                        *)
(*     remove_duplicate_values;                                            *)
(*   - a Category-Variable map (dict of lists) is a function from its keys *)
(*     to the SET of the list's elements: get_all_variables never appends  *)
(*     a variable twice to one list, and nothing modelled here reads the   *)
(*     order inside a list;                                                *)
(*   - the fetched pages are the merged observation of all URLs: whether   *)
(*     every page held a stats table, and per table category the header    *)
(*     variables (the HTTP fetch and the xpath queries are external);      *)
(*   - Python's None, and exceptions, are tagged records.                  *)
(***************************************************************************)
EXTENDS Integers, Sequences, FiniteSets, TLC

VARIABLES
    file,       \* the configuration store: what yaml.dump last wrote (or the file as found)
    config,     \* FbrefConfig.config, the in-memory configuration
    pages,      \* what the reference URLs show
    pc,         \* position of the __main__ driver ("API" when methods are called directly)
    changes,    \* what the last update_tables call returned, and the ranks it saw and left
    before,     \* what the update_tables call before that returned
    between,    \* what happened to the object between those two calls
    since,      \* what happened to the object since the last update_tables call
    result,     \* what the last update_variables call returned, and the map it saw
    answer,     \* the user's last answer to "Save changes (Y/N)? "
    saves,      \* number of config.save() calls so far
    started     \* the store's content when the run began

vars == <<file, config, pages, pc, changes, before, between, since, result,
          answer, saves, started>>

---------------------------------------------------------------------------
(* Bounds and vocabularies *)

\* The category labels the model draws from; "summary" and "misc" are the two
\* labels update_tables treats specially, the others stand for any other label.
Categories == {"summary", "misc", "passing", "shooting"}

\* The variable (column) names the model draws from.
Variables == {"cmp", "att"}

\* Largest rank a stored rank mapping holds at the start.
MaxRank == 2

\* Largest number of (category, variable) header observations on the pages.
MaxObs == 4

\* Largest number of config.save() calls made directly on one object.
MaxSaves == 2

\* What the user may type at a prompt.
Answers == {"Y", "y", "N", ""}

---------------------------------------------------------------------------
(* Generic helpers over the representation *)

EmptyMap == [c \in {} |-> {}]

\* ranks.keys() as a set
Keys(ranks) == {ranks[i][1] : i \in DOMAIN ranks}

\* list(ranks.keys())
KeyList(ranks) == [i \in DOMAIN ranks |-> ranks[i][1]]

\* ranks[cat]
RankOf(ranks, cat) == ranks[CHOOSE i \in DOMAIN ranks : ranks[i][1] = cat][2]

\* position of cat in the key order
PosOf(ranks, cat) == CHOOSE i \in DOMAIN ranks : ranks[i][1] = cat

\* all orders in which a set can be iterated
Orders(S) ==
    {s \in [1..Cardinality(S) -> S] : \A i, j \in DOMAIN s : s[i] = s[j] => i = j}

\* list.remove(x): drop the first occurrence of x
RECURSIVE Remove(_, _)
Remove(s, x) ==
    IF s = <<>> THEN <<>>
    ELSE IF Head(s) = x THEN Tail(s)
    ELSE <<Head(s)>> \o Remove(Tail(s), x)

\* the elements of a sequence
Elems(s) == {s[i] : i \in DOMAIN s}

---------------------------------------------------------------------------
(* helpers.py *)

\* select_top_priority(items, priority): with one item left return it; otherwise
\* drop from both lists the first entry of priority that is among the items and
\* repeat. Falling out of the for loop returns None.
RECURSIVE select_top_priority(_, _)
select_top_priority(items, priority) ==
    IF Len(items) = 1 THEN items[1]
    ELSE IF \E i \in DOMAIN priority : priority[i] \in Elems(items)
         THEN LET p == priority[CHOOSE i \in DOMAIN priority :
                                    /\ priority[i] \in Elems(items)
                                    /\ \A j \in 1..(i - 1) : priority[j] \notin Elems(items)]
              IN  select_top_priority(Remove(items, p), Remove(priority, p))
         ELSE "None"

\* get_table_types(urls): None as soon as a page shows no stats table, otherwise
\* the table -> category dict; only the set of its values is ever used.
get_table_types(pgs) ==
    IF pgs.found THEN [none |-> FALSE, types |-> DOMAIN pgs.tables]
    ELSE [none |-> TRUE, types |-> {}]

\* get_all_variables(urls): raises when there are no tables; a category becomes a
\* key with the first variable appended to it.
get_all_variables(pgs) ==
    LET tables == get_table_types(pgs) IN
    IF tables.none \/ tables.types = {}
    THEN [raised |-> TRUE, all_vars |-> EmptyMap]
    ELSE [raised |-> FALSE,
          all_vars |-> [c \in {t \in tables.types : pgs.tables[t] # {}} |-> pgs.tables[c]]]

\* one step of the stable sort: x goes behind every entry whose rank is >= its own
RECURSIVE InsertByRank(_, _)
InsertByRank(sorted, x) ==
    IF sorted = <<>> THEN <<x>>
    ELSE IF Head(sorted)[2] >= x[2]
         THEN <<Head(sorted)>> \o InsertByRank(Tail(sorted), x)
         ELSE <<x>> \o sorted

\* the sort with reverse=True left out: ascending rank, equal ranks in their
\* original order
RECURSIVE SortedAscending(_)
SortedAscending(ranks) ==
    IF ranks = <<>> THEN <<>>
    ELSE LET rest == SortedAscending(Tail(ranks))
             x == Head(ranks)
             k == Cardinality({i \in DOMAIN rest : rest[i][2] < x[2]})
         IN  SubSeq(rest, 1, k) \o <<x>> \o SubSeq(rest, k + 1, Len(rest))

\* sorted(priorities.items(), key=lambda x: x[1], reverse=True): descending rank,
\* equal ranks in their original order
RECURSIVE SortedByRank(_)
SortedByRank(ranks) ==
    IF ranks = <<>> THEN <<>>
    ELSE InsertByRank(SortedByRank(SubSeq(ranks, 1, Len(ranks) - 1)), ranks[Len(ranks)])

\* all_vars.count(var)
CountOf(variables, var) == Cardinality({c \in DOMAIN variables : var \in variables[c]})

\* the threshold with the 0.7 left out: more occurrences than categories
FrequencyRuleUnscaled(variables, categories, cats, var) ==
    /\ CountOf(variables, var) > Len(categories)
    /\ "summary" \in Elems(cats)

\* all_vars.count(var) > len(categories) * 0.7 and "summary" in var_categories[var]
\* (the float product agrees with 7n/10 for every n below 90)
FrequencyRule(variables, categories, cats, var) ==
    /\ CountOf(variables, var) * 10 > Len(categories) * 7
    /\ "summary" \in Elems(cats)

\* lines 139-146: for each unique variable the categories (in the key order of
\* ranks) whose list holds it; variables[cat] of a category that is no key of
\* variables is the KeyError of remove_duplicate_values
VarCategories(variables, categories) ==
    [var \in UNION {variables[c] : c \in DOMAIN variables} |->
        SelectSeq(categories, LAMBDA cat : var \in variables[cat])]

\* lines 148-160: the category each variable is assigned to
VarMap(variables, categories, priorities) ==
    LET var_categories == VarCategories(variables, categories) IN
    [var \in DOMAIN var_categories |->
        IF FrequencyRule(variables, categories, var_categories[var], var)
        THEN "summary"
        ELSE select_top_priority(var_categories[var], priorities)]

\* the mapping with the var_map[v] == cat test left out
OutputUnfiltered(variables, var_map) ==
    [cat \in {c \in DOMAIN variables : variables[c] # {}} |-> variables[cat]]

\* lines 162-171: the final table mapping; a category becomes a key with the first
\* variable it keeps
Output(variables, var_map) ==
    LET owned(cat) == {v \in variables[cat] : var_map[v] = cat} IN
    [cat \in {c \in DOMAIN variables : owned(c) # {}} |-> owned(cat)]

NoMapping == [var \in {} |-> "None"]

\* remove_duplicate_values(variables, ranks)
remove_duplicate_values(variables, ranks) ==
    LET categories == KeyList(ranks)
        priorities == KeyList(SortedByRank(ranks))
        unique_vars == UNION {variables[c] : c \in DOMAIN variables}
        missing == {i \in DOMAIN categories : categories[i] \notin DOMAIN variables}
        var_map == VarMap(variables, categories, priorities)
    IN
    IF ~(DOMAIN variables \subseteq Elems(priorities))
    THEN [kind |-> "Exception", names |-> Elems(priorities) \ DOMAIN variables,
          var_map |-> NoMapping, output |-> EmptyMap]
    ELSE IF unique_vars # {} /\ missing # {}
    THEN [kind |-> "KeyError",
          names |-> {categories[CHOOSE i \in missing : \A j \in missing : i <= j]},
          var_map |-> NoMapping, output |-> EmptyMap]
    ELSE [kind |-> "ok", names |-> {}, var_map |-> var_map,
          output |-> Output(variables, var_map)]

\* find_difference without its last step, the removal of empty entries
find_difference_keeping_empty(left, right) ==
    [key \in DOMAIN left |->
        IF key \in DOMAIN right THEN left[key] \ right[key] ELSE left[key]]

\* find_difference(left, right)
find_difference(left, right) ==
    LET diff == [key \in DOMAIN left |->
                    IF key \in DOMAIN right THEN left[key] \ right[key] ELSE left[key]]
    IN  [k \in {key \in DOMAIN diff : Cardinality(diff[key]) > 0} |-> diff[k]]

---------------------------------------------------------------------------
(* config.py: FbrefConfig *)

\* self.config as loaded from a store that does not exist: {}
EmptyConfig ==
    [has_tables |-> FALSE, tables |-> <<>>, has_variables |-> FALSE, variables |-> EmptyMap]

\* the rank update_tables gives a newly found table type
NewRank(table, table_types) ==
    IF table = "summary" THEN Cardinality(table_types)
    ELSE IF table = "misc" THEN Cardinality(table_types) - 1
    ELSE 1

\* the subset test written as an equality test
NoUpdatesRequiredIfEqual(setting_priorities, table_types) ==
    /\ setting_priorities # <<>>
    /\ table_types = Keys(setting_priorities)

\* lines 51-54: "if setting_priorities:" and the issubset test
NoUpdatesRequired(setting_priorities, table_types) ==
    /\ setting_priorities # <<>>
    /\ table_types \subseteq Keys(setting_priorities)

\* an update_tables that returns the additions without recording them
NotSavedToObject(cfg, new_settings) == cfg

\* lines 57-69: new_settings is the object's own dict when the key exists, and
\* is stored under config["tables"] in either case
SavedToObject(cfg, new_settings) ==
    [cfg EXCEPT !.has_tables = TRUE, !.tables = new_settings]

\* line 58: the observed table types that have no rank yet (nothing is observed
\* when get_table_types returned None)
AddedTables(cfg, pgs) ==
    get_table_types(pgs).types \ Keys(IF cfg.has_tables THEN cfg.tables ELSE <<>>)

\* FbrefConfig.update_tables(urls): the configuration it leaves and what it
\* returns. visit is the order in which "for table in added" walks the set (the
\* order its labels hash to), which becomes the key order of the new entries.
update_tables(cfg, pgs, visit) ==
    LET setting_priorities == IF cfg.has_tables THEN cfg.tables ELSE <<>>
        tables == get_table_types(pgs)
        table_types == tables.types
        added == AddedTables(cfg, pgs)
        new_settings == setting_priorities \o
            [i \in DOMAIN visit |-> <<visit[i], NewRank(visit[i], table_types)>>]
    IN
    IF tables.none
    THEN [config |-> cfg, kind |-> "AttributeError", added |-> {}]
    ELSE IF NoUpdatesRequired(setting_priorities, table_types)
    THEN [config |-> cfg, kind |-> "None", added |-> {}]
    ELSE [config |-> SavedToObject(cfg, new_settings), kind |-> "added", added |-> added]

\* FbrefConfig.update_variables(urls): the configuration it leaves and what it returns
update_variables(cfg, pgs) ==
    LET existing_map == IF cfg.has_variables THEN cfg.variables ELSE EmptyMap
        got == get_all_variables(pgs)
        rdv == remove_duplicate_values(got.all_vars, cfg.tables)
        new_map == rdv.output
        added == find_difference(new_map, existing_map)
        removed == find_difference(existing_map, new_map)
        failed(kind, names) ==
            [config |-> cfg, kind |-> kind, names |-> names, var_map |-> NoMapping,
             new_map |-> EmptyMap, added |-> EmptyMap, removed |-> EmptyMap]
    IN
    IF got.raised THEN failed("NoTables", {})
    ELSE IF ~cfg.has_tables THEN failed("KeyError", {"tables"})
    ELSE IF rdv.kind # "ok" THEN failed(rdv.kind, rdv.names)
    ELSE [config |-> IF added # EmptyMap \/ removed # EmptyMap
                     THEN [cfg EXCEPT !.has_variables = TRUE, !.variables = new_map]
                     ELSE cfg,
          kind |-> "ok", names |-> {}, var_map |-> rdv.var_map,
          new_map |-> new_map, added |-> added, removed |-> removed]

\* "if changes:" / "if added or removed:" in __main__
TablesChanged(c) == c.kind = "added" /\ c.added # {}
VariablesChanged(r) == r.kind = "ok" /\ (r.added # EmptyMap \/ r.removed # EmptyMap)

\* the test written as "anything but N"
NotDeclined(choice) == choice \notin {"N", "n"}

\* choice in ("Y", "y")
Affirmative(choice) == choice \in {"Y", "y"}

---------------------------------------------------------------------------
(* Input families *)

\* every rank mapping over the labels with ranks 1..MaxRank, in every key order
RankMaps ==
    UNION {{[i \in DOMAIN o |-> <<o[i], r[o[i]]>>] : o \in Orders(S), r \in [S -> 1..MaxRank]}
           : S \in SUBSET Categories}

\* what the pages can show: no stats table on some page, or up to MaxObs
\* (category, variable) header cells over one or more tables
Observations == {S \in SUBSET (Categories \X Variables) : S # {} /\ Cardinality(S) <= MaxObs}

PagesOf(S) ==
    [found |-> TRUE,
     tables |-> [c \in {o[1] : o \in S} |-> {o[2] : o \in {x \in S : x[1] = c}}]]

NoTablesPage == [found |-> FALSE, tables |-> EmptyMap]

PageFamily == {NoTablesPage} \cup {PagesOf(S) : S \in Observations}

\* stored Category-Variable maps: every variable under at most one category
OwnedMaps ==
    {[c \in {o[1] : o \in S} |-> {o[2] : o \in {x \in S : x[1] = c}}] :
        S \in {T \in SUBSET (Categories \X Variables) :
                  \A x, y \in T : x[2] = y[2] => x = y}}

NoCall == [kind |-> "none_yet", added |-> {}, seen |-> EmptyConfig, left |-> EmptyConfig]

NoResult ==
    [kind |-> "none_yet", names |-> {}, var_map |-> NoMapping, new_map |-> EmptyMap,
     added |-> EmptyMap, removed |-> EmptyMap, seen |-> EmptyConfig]

\* FbrefConfig(): the object holds what the store holds
Loaded(f) ==
    /\ file = f /\ config = f /\ started = f
    /\ changes = NoCall /\ before = [kind |-> "none_yet", added |-> {}]
    /\ between = "nothing" /\ since = "nothing"
    /\ result = NoResult /\ answer = "" /\ saves = 0

---------------------------------------------------------------------------
(* Methods called directly on one FbrefConfig object *)

\* config = FbrefConfig(): a fresh object, loaded from the store
Construct ==
    /\ pc = "API"
    /\ config' = file
    /\ since' = IF since = "nothing" THEN "reloaded" ELSE since
    /\ UNCHANGED <<file, pages, pc, changes, before, between, result, answer, saves, started>>

\* config.save()
CallSave ==
    /\ pc = "API"
    /\ saves < MaxSaves
    /\ file' = config
    /\ saves' = saves + 1
    /\ since' = IF since = "nothing" THEN "saved" ELSE since
    /\ UNCHANGED <<config, pages, pc, changes, before, between, result, answer, started>>

\* config.update_tables(urls)
CallUpdateTables ==
    /\ pc = "API"
    /\ \E visit \in Orders(AddedTables(config, pages)) :
          LET r == update_tables(config, pages, visit) IN
          /\ config' = r.config
          /\ changes' = [kind |-> r.kind, added |-> r.added, seen |-> config, left |-> r.config]
    /\ before' = [kind |-> changes.kind, added |-> changes.added]
    /\ between' = since
    /\ since' = "nothing"
    /\ UNCHANGED <<file, pages, pc, result, answer, saves, started>>

\* config.update_variables(urls)
CallUpdateVariables ==
    /\ pc = "API"
    /\ LET r == update_variables(config, pages) IN
          /\ config' = r.config
          /\ result' = [kind |-> r.kind, names |-> r.names, var_map |-> r.var_map,
                        new_map |-> r.new_map, added |-> r.added, removed |-> r.removed,
                        seen |-> config]
    /\ UNCHANGED <<file, pages, pc, changes, before, between, since, answer, saves, started>>

\* update_variables on a configuration whose ranks are any rank mapping
InitVariables ==
    /\ pc = "API"
    /\ pages \in PageFamily
    /\ \E f \in {EmptyConfig} \cup
                {[EmptyConfig EXCEPT !.has_tables = TRUE, !.tables = t] : t \in RankMaps} :
          Loaded(f)

NextVariables == CallUpdateVariables

SpecVariables == InitVariables /\ [][NextVariables]_vars

\* pages that differ only in the table categories they show
TablePages ==
    {NoTablesPage} \cup
    {PagesOf({<<c, CHOOSE v \in Variables : TRUE>> : c \in S}) :
        S \in {T \in SUBSET Categories : T # {} /\ Cardinality(T) <= MaxObs}}

\* the stores a run can find: none, or any rank mapping
RankedStores ==
    {EmptyConfig} \cup
    {[EmptyConfig EXCEPT !.has_tables = TRUE, !.tables = t] : t \in RankMaps}

\* update_tables, save and re-loading on the same pages
InitTables ==
    /\ pc = "API"
    /\ pages \in TablePages
    /\ \E f \in RankedStores : Loaded(f)

NextTables == Construct \/ CallUpdateTables \/ CallSave

SpecTables == InitTables /\ [][NextTables]_vars

\* the rank mappings update_tables builds for pgs from an empty configuration, in
\* every order the new labels can be visited in
DiscoveredStores(pgs) ==
    {update_tables(EmptyConfig, pgs, visit).config :
        visit \in Orders(AddedTables(EmptyConfig, pgs))}

\* update_variables once the table types of the pages are ranked and stored, on a
\* store that holds no variable map or any map of an earlier run
InitDelta ==
    /\ pc = "API"
    /\ pages \in PageFamily
    /\ \E f \in DiscoveredStores(pages) :
          \/ Loaded(f)
          \/ \E m \in OwnedMaps :
                Loaded([f EXCEPT !.has_variables = TRUE, !.variables = m])

NextDelta == CallUpdateVariables

SpecDelta == InitDelta /\ [][NextDelta]_vars

---------------------------------------------------------------------------
(* The __main__ driver: one run of config.py *)

\* line 128: changes = config.update_tables(urls)
MainUpdateTables ==
    /\ pc = "INIT"
    /\ \E visit \in Orders(AddedTables(config, pages)) :
          LET r == update_tables(config, pages, visit) IN
          /\ config' = r.config
          /\ changes' = [kind |-> r.kind, added |-> r.added, seen |-> config, left |-> r.config]
          /\ pc' = IF r.kind = "AttributeError" THEN "CRASHED" ELSE "TABLES_CHECKED"
    /\ UNCHANGED <<file, pages, before, between, since, result, answer, saves, started>>

\* lines 129-140: the added tables are printed, the user is asked, and the run
\* exits with or without config.save()
MainConfirmTables ==
    /\ pc = "TABLES_CHECKED"
    /\ TablesChanged(changes)
    /\ \E choice \in Answers :
          /\ answer' = choice
          /\ IF Affirmative(choice)
             THEN file' = config /\ saves' = saves + 1 /\ pc' = "SAVED"
             ELSE UNCHANGED <<file, saves>> /\ pc' = "ABORTED"
    /\ UNCHANGED <<config, pages, changes, before, between, since, result, started>>

\* lines 141-145: no changes to table priorities; added, removed =
\* config.update_variables(urls)
MainUpdateVariables ==
    /\ pc = "TABLES_CHECKED"
    /\ ~TablesChanged(changes)
    /\ LET r == update_variables(config, pages) IN
          /\ config' = r.config
          /\ result' = [kind |-> r.kind, names |-> r.names, var_map |-> r.var_map,
                        new_map |-> r.new_map, added |-> r.added, removed |-> r.removed,
                        seen |-> config]
          /\ pc' = IF r.kind = "ok" THEN "VARIABLES_CHECKED" ELSE "CRASHED"
    /\ UNCHANGED <<file, pages, changes, before, between, since, answer, saves, started>>

\* lines 146-158: the variable diff is printed, the user is asked, and the run
\* exits with or without config.save()
MainConfirmVariables ==
    /\ pc = "VARIABLES_CHECKED"
    /\ VariablesChanged(result)
    /\ \E choice \in Answers :
          /\ answer' = choice
          /\ IF Affirmative(choice)
             THEN file' = config /\ saves' = saves + 1 /\ pc' = "SAVED"
             ELSE UNCHANGED <<file, saves>> /\ pc' = "ABORTED"
    /\ UNCHANGED <<config, pages, changes, before, between, since, result, started>>

\* line 146 false: the script runs off its end
MainNoChange ==
    /\ pc = "VARIABLES_CHECKED"
    /\ ~VariablesChanged(result)
    /\ pc' = "NO_CHANGE"
    /\ UNCHANGED <<file, config, pages, changes, before, between, since, result,
                   answer, saves, started>>

\* the variable maps a store with ranks f can hold: none, or the one an earlier
\* run over the same pages saved
StoredMaps(f, pgs) ==
    LET r == update_variables(f, pgs) IN
    {f} \cup IF r.kind = "ok" /\ r.new_map # EmptyMap
             THEN {[f EXCEPT !.has_variables = TRUE, !.variables = r.new_map]}
             ELSE {}

\* the stores a run can find: none, or the ranks an earlier run discovered on
\* some pages, with or without the variable map of these pages
MainStores(pgs) ==
    {EmptyConfig} \cup
    UNION {StoredMaps(f, pgs) : f \in UNION {DiscoveredStores(p) : p \in TablePages}}

Init ==
    /\ pc = "INIT"
    /\ pages \in PageFamily
    /\ \E f \in MainStores(pages) : Loaded(f)

Next ==
    \/ MainUpdateTables
    \/ MainConfirmTables
    \/ MainUpdateVariables
    \/ MainConfirmVariables
    \/ MainNoChange

Spec == Init /\ [][Next]_vars

---------------------------------------------------------------------------
(* Properties of update_variables / remove_duplicate_values, read off the     *)
(* state after a call: result is what the call returned, result.seen the      *)
(* configuration it ran on, pages what it observed.                           *)

\* the raw observations handed to remove_duplicate_values
AllVars == get_all_variables(pages).all_vars

\* the rank mapping the call ran on
SeenRanks == result.seen.tables

\* the categories var was observed in
ObservedIn(var) == {c \in DOMAIN AllVars : var \in AllVars[c]}

\* the categories of the returned map that list var
OwnersOf(var) == {c \in DOMAIN result.new_map : var \in result.new_map[c]}

\* observed in summary and in strictly more than 70% of the ranked categories
Qualifies(var) ==
    /\ "summary" \in ObservedIn(var)
    /\ Cardinality(ObservedIn(var)) * 10 > Len(SeenRanks) * 7

\* the call got as far as returning a map
Returned == result.kind = "ok"

\* C1: every variable observed in at least one category is listed in the
\* returned map under exactly one category, and that category is one in which
\* the variable was observed.
C1_ExactlyOneOwner ==
    Returned =>
        \A v \in Variables :
            ObservedIn(v) # {} =>
                /\ Cardinality(OwnersOf(v)) = 1
                /\ OwnersOf(v) \subseteq ObservedIn(v)

\* C1 witness: a map was returned for pages on which one variable is observed in
\* two categories and another in one.
C1_Witness ==
    /\ Returned
    /\ \E v, w \in Variables :
          /\ Cardinality(ObservedIn(v)) >= 2
          /\ Cardinality(ObservedIn(w)) = 1

\* C2 as stated: a variable observed in two or more categories that does not
\* qualify for the frequency rule is assigned to the candidate with the highest
\* rank.
C2_HighestRankWins ==
    Returned =>
        \A v \in Variables :
            (Cardinality(ObservedIn(v)) >= 2 /\ ~Qualifies(v)) =>
                \E c \in ObservedIn(v) :
                    /\ OwnersOf(v) = {c}
                    /\ \A d \in ObservedIn(v) : RankOf(SeenRanks, c) >= RankOf(SeenRanks, d)

\* C2 amended: such a variable is assigned to the candidate with the LOWEST rank;
\* among candidates of equal lowest rank, to the one latest in the key order of
\* the rank mapping.
C2_LowestRankWins ==
    Returned =>
        \A v \in Variables :
            (Cardinality(ObservedIn(v)) >= 2 /\ ~Qualifies(v)) =>
                \E c \in ObservedIn(v) :
                    /\ OwnersOf(v) = {c}
                    /\ \A d \in ObservedIn(v) \ {c} :
                          \/ RankOf(SeenRanks, d) > RankOf(SeenRanks, c)
                          \/ /\ RankOf(SeenRanks, d) = RankOf(SeenRanks, c)
                             /\ PosOf(SeenRanks, d) < PosOf(SeenRanks, c)

\* C2 witness: a variable observed in a rank-1 and a rank-2 category, not
\* qualifying for the frequency rule, was assigned to the rank-1 category.
C2_Witness ==
    /\ Returned
    /\ \E v \in Variables : \E a, b \in ObservedIn(v) :
          /\ ObservedIn(v) = {a, b}
          /\ ~Qualifies(v)
          /\ RankOf(SeenRanks, a) = 1 /\ RankOf(SeenRanks, b) = 2
          /\ OwnersOf(v) = {a}

\* C3: a variable observed in summary and in strictly more than 70% of the
\* ranked categories is assigned to summary, whatever the ranks are.
C3_FrequencyRule ==
    Returned =>
        \A v \in Variables : Qualifies(v) => OwnersOf(v) = {"summary"}

\* C3 witness: a variable observed in 3 of 4 ranked categories, summary among
\* them, went to summary although another candidate has a lower rank and one a
\* higher rank than summary.
C3_Witness ==
    /\ Returned
    /\ Len(SeenRanks) = 4
    /\ \E v \in Variables :
          /\ Cardinality(ObservedIn(v)) = 3
          /\ Qualifies(v)
          /\ OwnersOf(v) = {"summary"}
          /\ \E c \in ObservedIn(v) : RankOf(SeenRanks, c) < RankOf(SeenRanks, "summary")

\* some observed category has no rank in the configuration the call ran on
SomeUnranked ==
    /\ result.kind \notin {"none_yet", "NoTables"}
    /\ result.seen.has_tables
    /\ ~(DOMAIN AllVars \subseteq Keys(SeenRanks))

\* C5: when an observed category has no rank, update_variables fails with the
\* configuration error naming exactly the observed categories that lack a rank,
\* and produces no variable mapping.
C5_NamesUnrankedCategories ==
    SomeUnranked =>
        /\ result.kind = "Exception"
        /\ result.names = DOMAIN AllVars \ Keys(SeenRanks)
        /\ result.new_map = EmptyMap
        /\ config = result.seen

\* C10: when every observed category has a rank, update_variables returns an
\* (added, removed) pair, also when more categories are ranked than observed.
C10_CompletesWhenRanked ==
    (/\ result.kind # "none_yet"
     /\ pages.found
     /\ result.seen.has_tables
     /\ DOMAIN pages.tables \subseteq Keys(SeenRanks)) => Returned

---------------------------------------------------------------------------
(* Properties of update_tables, read off the state after a call: changes is   *)
(* what the call returned, changes.seen / changes.left the configuration      *)
(* before and after it, before the return value of the call before it.        *)

ExistingCategories == IF changes.seen.has_tables THEN Keys(changes.seen.tables) ELSE {}

ObservedCategories == DOMAIN pages.tables

\* C4: a newly discovered summary holds the highest rank of the updated mapping,
\* a newly discovered misc the second-highest, every other new category rank 1;
\* from no configuration, {summary, misc, passing} get 3, 2, 1.
C4_NewCategoryRanks ==
    changes.kind = "added" =>
        LET ranks == changes.left.tables IN
        /\ \A t \in changes.added :
              /\ t = "summary" =>
                    \A c \in Keys(ranks) : RankOf(ranks, t) >= RankOf(ranks, c)
              /\ t = "misc" =>
                    Cardinality({c \in Keys(ranks) : RankOf(ranks, c) > RankOf(ranks, t)}) <= 1
              /\ t \notin {"summary", "misc"} => RankOf(ranks, t) = 1
        /\ (ExistingCategories = {} /\ ObservedCategories = {"summary", "misc", "passing"}) =>
              /\ RankOf(ranks, "summary") = 3
              /\ RankOf(ranks, "misc") = 2
              /\ RankOf(ranks, "passing") = 1

\* C7 as stated: two calls with the same pages and no save between them return
\* the same added-set; a call after the result was saved returns no-op.
C7_SameAddedSetTwice ==
    before.kind = "added" =>
        /\ between \in {"nothing", "reloaded"} =>
              (changes.kind = "added" /\ changes.added = before.added)
        /\ between = "saved" => changes.kind = "None"

\* C7 amended: the first call records the new ranks in the object, so a second
\* call on the same object returns no-op with or without a save; the same
\* added-set comes back only on an object loaded again from the unchanged store.
C7_SecondCallIsNoOp ==
    before.kind = "added" =>
        /\ between = "nothing" => changes.kind = "None"
        /\ between = "saved" => changes.kind = "None"
        /\ between = "reloaded" =>
              (changes.kind = "added" /\ changes.added = before.added)

\* C7 witness: a call that added categories was followed, on the same object and
\* with nothing saved, by a call that returned no-op.
C7_Witness ==
    /\ before.kind = "added" /\ before.added # {}
    /\ between = "nothing"
    /\ saves = 0
    /\ changes.kind = "None"

\* C8: a non-empty existing category set that contains every observed category
\* gives no-op and leaves the rank mapping as it was; every other case returns
\* the observed categories that had no rank.
C8_NoOpDetection ==
    changes.kind \in {"None", "added"} =>
        IF ExistingCategories # {} /\ ObservedCategories \subseteq ExistingCategories
        THEN changes.kind = "None" /\ changes.left = changes.seen
        ELSE changes.kind = "added" /\ changes.added = ObservedCategories \ ExistingCategories

\* C8 witness: existing {summary, passing}, observed {summary}: no-op.
C8_Witness ==
    /\ changes.kind = "None"
    /\ ExistingCategories = {"summary", "passing"}
    /\ ObservedCategories = {"summary"}
    /\ config = changes.seen

---------------------------------------------------------------------------
(* The deltas update_variables returns *)

\* the stored map the call compared against ({} when the store held none)
ExistingMap == IF result.seen.has_variables THEN result.seen.variables ELSE EmptyMap

\* the variables a map lists under a category (none when it is no key)
ListedIn(m, c) == IF c \in DOMAIN m THEN m[c] ELSE {}

\* C6: added holds, per category, the variables of the new map that the existing
\* map does not list there, removed the converse, and neither has a key with an
\* empty delta.
C6_DeltaComputation ==
    Returned =>
        \A c \in Categories :
            LET n == ListedIn(result.new_map, c)
                e == ListedIn(ExistingMap, c)
            IN  /\ c \in DOMAIN result.added <=> n \ e # {}
                /\ c \in DOMAIN result.removed <=> e \ n # {}
                /\ ListedIn(result.added, c) = n \ e
                /\ ListedIn(result.removed, c) = e \ n

\* C6 witness: existing {passing: [cmp, att]}, new {passing: [cmp], shooting:
\* [att]} gave added {shooting: {att}} and removed {passing: {att}}.
C6_Witness ==
    /\ Returned
    /\ ExistingMap = [c \in {"passing"} |-> {"cmp", "att"}]
    /\ result.new_map = [c \in {"passing", "shooting"} |->
                            IF c = "passing" THEN {"cmp"} ELSE {"att"}]
    /\ result.added = [c \in {"shooting"} |-> {"att"}]
    /\ result.removed = [c \in {"passing"} |-> {"att"}]

---------------------------------------------------------------------------
(* The interactive run *)

TableDiffReported == changes.kind = "added" /\ changes.added # {}

VariableDiffReported ==
    result.kind = "ok" /\ (DOMAIN result.added # {} \/ DOMAIN result.removed # {})

\* C9: the store is written only after a non-empty diff was reported and the
\* user answered Y or y; a run without a diff or with any other answer ends
\* (NO_CHANGE, ABORTED) with the store as it found it; once the table check
\* reported a diff the run goes to SAVED or ABORTED and never reconciles
\* variables.
C9_SaveOnlyAfterConfirmedDiff ==
    /\ saves > 0 =>
          /\ saves = 1 /\ pc = "SAVED"
          /\ answer \in {"Y", "y"}
          /\ TableDiffReported \/ VariableDiffReported
          /\ file = config
    /\ saves = 0 => file = started /\ pc # "SAVED"
    /\ pc = "ABORTED" =>
          /\ answer \notin {"Y", "y"}
          /\ TableDiffReported \/ VariableDiffReported
    /\ pc = "NO_CHANGE" => ~TableDiffReported /\ result.kind = "ok" /\ ~VariableDiffReported
    /\ TableDiffReported =>
          /\ result.kind = "none_yet"
          /\ pc \in {"TABLES_CHECKED", "SAVED", "ABORTED"}

\* C9 witness: a run without a table diff reported a variable diff, the user
\* answered y, and the new variable map is in the store.
C9_Witness ==
    /\ pc = "SAVED"
    /\ answer = "y"
    /\ ~TableDiffReported /\ VariableDiffReported
    /\ file # started
    /\ file.variables = result.new_map

============================================================================
